---- MODULE Spec2Model ----
(***************************************************************************)
(* RsaSsaPkcs1VerifyKeyManager (cc/signature/                              *)
(* rsa_ssa_pkcs1_verify_key_manager.cc): validation of an RSA-SSA-PKCS1    *)
(* public key, construction of the PublicKeyVerify primitive, and the key  *)
(* factory that refuses to create keys.                                    *)
(*                                                                         *)
(* Byte strings are sequences of 0..255.  A BIGNUM is kept as its minimal  *)
(* big-endian byte sequence (no leading zero byte), so that 2048-bit       *)
(* values never become TLC integers.                                       *)
(***************************************************************************)
EXTENDS Integers, Sequences, FiniteSets, TLC

VARIABLES key_type_, key_factory_, key, key_format, bn_alloc_ok,
          op, pc, status, status_or_n, ret, evaluated

vars == <<key_type_, key_factory_, key, key_format, bn_alloc_ok,
          op, pc, status, status_or_n, ret, evaluated>>

----------------------------------------------------------------------------
(* Bounds of the model *)

\* versions 0..MaxVersion are tried
MaxVersion == 2
\* proto HashType numbers 0..MaxHash are tried (numbers above 4 are unknown)
MaxHash == 5
\* a modulus is tried with 0..MaxLeadZeros zero bytes prepended
MaxLeadZeros == 2
\* number of threads calling the manager concurrently
NumThreads == 2

----------------------------------------------------------------------------
(* Program constants *)

kKeyType == "type.googleapis.com/google.crypto.tink.RsaSsaPkcs1PublicKey"
kVersion == 0
kMinRsaModulusSizeInBits == 2048

----------------------------------------------------------------------------
(* util::Status and util::StatusOr *)

OkStatus == [code |-> "OK", kind |-> "OK", msg |-> "OK"]

MkStatus(code, kind, msg) == [code |-> code, kind |-> kind, msg |-> msg]

IsOk(s) == s.code = "OK"

\* a StatusOr<std::unique_ptr<T>>: value is <<>> (no object) or <<object>>
StatusOrError(s) == [status |-> s, value |-> <<>>]
StatusOrValue(v) == [status |-> OkStatus, value |-> <<v>>]

NoResult == [status |-> MkStatus("NONE", "NONE", "no call returned yet"), value |-> <<>>]

----------------------------------------------------------------------------
(* Byte strings and BIGNUMs *)

Rep(b, n) == [i \in 1..n |-> b]

RECURSIVE StripLeadingZeros(_)
StripLeadingZeros(s) ==
  IF Len(s) = 0 THEN s
  ELSE IF s[1] = 0 THEN StripLeadingZeros(Tail(s)) ELSE s

\* number of significant bits of one byte (BN_num_bits_word)
RECURSIVE BN_num_bits_word(_)
BN_num_bits_word(w) == IF w = 0 THEN 0 ELSE 1 + BN_num_bits_word(w \div 2)

\* significant bits of a BIGNUM: whole bytes below the top one, plus the top byte's bits
BN_num_bits(bn) ==
  IF Len(bn) = 0 THEN 0 ELSE (Len(bn) - 1) * 8 + BN_num_bits_word(bn[1])

\* SubtleUtilBoringSSL::str2bn: BN_bin2bn reads the bytes big-endian and drops
\* leading zeros; it fails only when BoringSSL cannot build the BIGNUM.
str2bn(s, alloc_ok) ==
  IF alloc_ok THEN StatusOrValue(StripLeadingZeros(s))
  ELSE StatusOrError(MkStatus("INTERNAL", "MalformedModulus", "BIGNUM allocation failed"))

----------------------------------------------------------------------------
(* Collaborators outside this file *)

\* Enums::ProtoToSubtle(HashType): known proto numbers to the subtle enum,
\* everything else to UNKNOWN_HASH
ProtoToSubtle(h) ==
  CASE h = 1 -> "SHA1"
    [] h = 2 -> "SHA384"
    [] h = 3 -> "SHA256"
    [] h = 4 -> "SHA512"
    [] OTHER -> "UNKNOWN_HASH"

ApprovedHashes == {"SHA256", "SHA384", "SHA512"}

ValidateSignatureHash(sig_hash) ==
  IF sig_hash \in ApprovedHashes THEN OkStatus
  ELSE MkStatus("INVALID_ARGUMENT", "UnsupportedHash", sig_hash)

ValidateRsaModulusSize(modulus_size) ==
  IF modulus_size < kMinRsaModulusSizeInBits
    THEN MkStatus("INVALID_ARGUMENT", "InsecureModulusSize", "modulus too small")
    ELSE OkStatus

ValidateVersion(candidate, max_expected) ==
  IF candidate # max_expected
    THEN MkStatus("INVALID_ARGUMENT", "UnsupportedVersion", "version not supported")
    ELSE OkStatus

\* the provider's view of a public exponent: 0, 1 and even values are degenerate
DegenerateExponent(e) ==
  LET v == StripLeadingZeros(e) IN
    \/ Len(v) = 0
    \/ (Len(v) = 1 /\ v[1] = 1)
    \/ v[Len(v)] % 2 = 0

\* subtle::RsaSsaPkcs1VerifyBoringSsl::New(rsa_pub_key, params)
RsaSsaPkcs1VerifyBoringSsl_New(rsa_pub_key, params) ==
  IF DegenerateExponent(rsa_pub_key.e)
    THEN StatusOrError(MkStatus("INVALID_ARGUMENT", "PrimitiveConstructionFailed",
                                "provider: invalid public exponent"))
    ELSE StatusOrValue([n |-> rsa_pub_key.n, e |-> rsa_pub_key.e,
                        hash_type |-> params.hash_type])

----------------------------------------------------------------------------
(* Inputs *)

Threads == 1..NumThreads

\* 65537, 3, and the degenerate 1 and 2
Exponents == { <<1, 0, 1>>, <<3>>, <<1>>, <<2>> }

\* moduli without leading zero bytes, named by bit-length:
\* 2048 bits in 256 bytes, 2047 bits in 256 bytes, 2040 bits in 255 bytes,
\* 2049 bits in 257 bytes, 1024 bits in 128 bytes, and the empty string
Modulus2048 == <<128>> \o Rep(0, 254) \o <<1>>
Modulus2047 == <<127>> \o Rep(255, 255)
Modulus2040 == <<128>> \o Rep(0, 253) \o <<1>>
Modulus2049 == <<1>> \o Rep(0, 255) \o <<1>>
Modulus1024 == <<128>> \o Rep(0, 126) \o <<1>>

BaseModuli == { Modulus2048, Modulus2047, Modulus2040, Modulus2049, Modulus1024, <<>> }

Moduli == { Rep(0, z) \o m : z \in 0..MaxLeadZeros, m \in BaseModuli }

\* RsaSsaPkcs1PublicKey messages: version, n, e, params.hash_type
Keys == [version : 0..MaxVersion, n : Moduli, e : Exponents,
         params : [hash_type : 0..MaxHash]]

\* key formats handed to the key factory: a serialized RsaSsaPkcs1KeyFormat,
\* the empty string, and bytes that are no message at all
ValidKeyFormat == <<10, 2, 8, 3, 16, 128, 16, 26, 3, 1, 0, 1>>
KeyFormats == { ValidKeyFormat, <<>>, <<255>> }

ParsesAsKeyFormat(f) == f = ValidKeyFormat \/ f = <<>>

NoKey == [version |-> 0, n |-> <<>>, e |-> <<>>, params |-> [hash_type |-> 0]]

----------------------------------------------------------------------------
(* RsaSsaPkcs1PublicKeyFactory *)

NotSupportedStatus ==
  MkStatus("UNIMPLEMENTED", "UnsupportedOperation",
           "Operation not supported for public keys, please use the RsaSsaPkcs1SignKeyManager.")

\* a factory that would mint a key for every format that parses
CreatingFactory(fmt) ==
  IF ParsesAsKeyFormat(fmt) THEN StatusOrValue([type_url |-> kKeyType, value |-> fmt])
  ELSE StatusOrError(NotSupportedStatus)

\* NewKey(const MessageLite& key_format)
NewKey(fmt) == StatusOrError(NotSupportedStatus)

\* NewKey(absl::string_view serialized_key_format)
NewKeySerialized(fmt) == StatusOrError(NotSupportedStatus)

\* NewKeyData(absl::string_view serialized_key_format)
NewKeyData(fmt) == StatusOrError(NotSupportedStatus)

----------------------------------------------------------------------------
(* RsaSsaPkcs1VerifyKeyManager: the calls as functions of their input.     *)
(* `evaluated' lists the collaborators a call has invoked, in order.       *)

\* variant: a deny-list that refuses SHA1 only
Validate_ParamsDenyList(params) ==
  IF ProtoToSubtle(params.hash_type) = "SHA1"
    THEN MkStatus("INVALID_ARGUMENT", "UnsupportedHash", "SHA1")
    ELSE OkStatus

\* Validate(const RsaSsaPkcs1Params& params)
Validate_Params(params) ==
  ValidateSignatureHash(ProtoToSubtle(params.hash_type))

\* the trace and status of a Validate(key) that stopped at check number i
StoppedAt(st, i) ==
  [status |-> st,
   evaluated |-> SubSeq(<<"ValidateVersion", "str2bn", "ValidateRsaModulusSize",
                          "ValidateSignatureHash">>, 1, i)]

\* variant: the version is checked after the modulus and the parameters
Validate_VersionLast(k, alloc_ok) ==
  LET son == str2bn(k.n, alloc_ok) IN
  IF ~IsOk(son.status) THEN StoppedAt(son.status, 2)
  ELSE IF ~IsOk(ValidateRsaModulusSize(BN_num_bits(son.value[1])))
    THEN StoppedAt(ValidateRsaModulusSize(BN_num_bits(son.value[1])), 3)
  ELSE IF ~IsOk(Validate_Params(k.params)) THEN StoppedAt(Validate_Params(k.params), 4)
  ELSE StoppedAt(ValidateVersion(k.version, kVersion), 4)

\* variant: the size check is given the length of the raw string, in bits
Validate_RawByteLength(k, alloc_ok) ==
  IF ~IsOk(ValidateVersion(k.version, kVersion))
    THEN StoppedAt(ValidateVersion(k.version, kVersion), 1)
  ELSE IF ~IsOk(str2bn(k.n, alloc_ok).status) THEN StoppedAt(str2bn(k.n, alloc_ok).status, 2)
  ELSE IF ~IsOk(ValidateRsaModulusSize(Len(k.n) * 8))
    THEN StoppedAt(ValidateRsaModulusSize(Len(k.n) * 8), 3)
  ELSE StoppedAt(Validate_Params(k.params), 4)

\* variant: the size check is left out
Validate_NoSizeCheck(k, alloc_ok) ==
  IF ~IsOk(ValidateVersion(k.version, kVersion))
    THEN StoppedAt(ValidateVersion(k.version, kVersion), 1)
  ELSE IF ~IsOk(str2bn(k.n, alloc_ok).status) THEN StoppedAt(str2bn(k.n, alloc_ok).status, 2)
  ELSE StoppedAt(Validate_Params(k.params), 4)

\* variant: the parameters are validated before the modulus size
Validate_ParamsBeforeSize(k, alloc_ok) ==
  IF ~IsOk(ValidateVersion(k.version, kVersion))
    THEN StoppedAt(ValidateVersion(k.version, kVersion), 1)
  ELSE IF ~IsOk(str2bn(k.n, alloc_ok).status) THEN StoppedAt(str2bn(k.n, alloc_ok).status, 2)
  ELSE IF ~IsOk(Validate_Params(k.params)) THEN StoppedAt(Validate_Params(k.params), 4)
  ELSE StoppedAt(ValidateRsaModulusSize(BN_num_bits(str2bn(k.n, alloc_ok).value[1])), 4)

\* variant: a degenerate public exponent is refused by Validate(key) itself
Validate_ChecksExponent(k, alloc_ok) ==
  IF ~IsOk(ValidateVersion(k.version, kVersion))
    THEN StoppedAt(ValidateVersion(k.version, kVersion), 1)
  ELSE IF ~IsOk(str2bn(k.n, alloc_ok).status) THEN StoppedAt(str2bn(k.n, alloc_ok).status, 2)
  ELSE IF ~IsOk(ValidateRsaModulusSize(BN_num_bits(str2bn(k.n, alloc_ok).value[1])))
    THEN StoppedAt(ValidateRsaModulusSize(BN_num_bits(str2bn(k.n, alloc_ok).value[1])), 3)
  ELSE IF DegenerateExponent(k.e)
    THEN StoppedAt(MkStatus("INVALID_ARGUMENT", "InvalidExponent", "bad exponent"), 4)
  ELSE StoppedAt(Validate_Params(k.params), 4)

\* Validate(const RsaSsaPkcs1PublicKey& key)
Validate_PublicKey(k, alloc_ok) ==
  LET st == ValidateVersion(k.version, kVersion)
      son == str2bn(k.n, alloc_ok)
  IN
  IF ~IsOk(st) THEN [status |-> st, evaluated |-> <<"ValidateVersion">>]
  ELSE IF ~IsOk(son.status)
    THEN [status |-> son.status, evaluated |-> <<"ValidateVersion", "str2bn">>]
  ELSE
    LET modulus_status == ValidateRsaModulusSize(BN_num_bits(son.value[1])) IN
    IF ~IsOk(modulus_status)
      THEN [status |-> modulus_status,
            evaluated |-> <<"ValidateVersion", "str2bn", "ValidateRsaModulusSize">>]
      ELSE [status |-> Validate_Params(k.params),
            evaluated |-> <<"ValidateVersion", "str2bn", "ValidateRsaModulusSize",
                            "ValidateSignatureHash">>]

\* variant: the primitive is constructed whatever Validate(key) returned
GetPrimitiveUnvalidated(k, alloc_ok) ==
  LET v == Validate_PublicKey(k, alloc_ok)
      r == RsaSsaPkcs1VerifyBoringSsl_New([n |-> k.n, e |-> k.e],
             [hash_type |-> ProtoToSubtle(k.params.hash_type)])
  IN [status |-> r.status, value |-> r.value,
      evaluated |-> Append(v.evaluated, "RsaSsaPkcs1VerifyBoringSsl::New")]

\* variant: a failure of New is reported by a status of the manager's own
GetPrimitiveOwnError(k, alloc_ok) ==
  LET v == Validate_PublicKey(k, alloc_ok)
      r == RsaSsaPkcs1VerifyBoringSsl_New([n |-> k.n, e |-> k.e],
             [hash_type |-> ProtoToSubtle(k.params.hash_type)])
  IN
  IF ~IsOk(v.status) THEN [status |-> v.status, value |-> <<>>, evaluated |-> v.evaluated]
  ELSE [status |-> IF IsOk(r.status) THEN OkStatus
                   ELSE MkStatus("INTERNAL", "PrimitiveConstructionFailed",
                                 "could not create the primitive"),
        value |-> r.value,
        evaluated |-> Append(v.evaluated, "RsaSsaPkcs1VerifyBoringSsl::New")]

\* GetPrimitiveFromKey(const RsaSsaPkcs1PublicKey& rsa_ssa_pkcs1_public_key)
GetPrimitiveFromKey(k, alloc_ok) ==
  LET v == Validate_PublicKey(k, alloc_ok) IN
  IF ~IsOk(v.status)
    THEN [status |-> v.status, value |-> <<>>, evaluated |-> v.evaluated]
  ELSE
    LET rsa_pub_key == [n |-> k.n, e |-> k.e]
        params == [hash_type |-> ProtoToSubtle(k.params.hash_type)]
        rsa_ssa_pkcs1_result == RsaSsaPkcs1VerifyBoringSsl_New(rsa_pub_key, params)
        ev == Append(v.evaluated, "RsaSsaPkcs1VerifyBoringSsl::New")
    IN
    IF ~IsOk(rsa_ssa_pkcs1_result.status)
      THEN [status |-> rsa_ssa_pkcs1_result.status, value |-> <<>>, evaluated |-> ev]
      ELSE [status |-> OkStatus, value |-> rsa_ssa_pkcs1_result.value, evaluated |-> ev]

----------------------------------------------------------------------------
(* State after construction of the manager (lines 86-87).  Every thread    *)
(* has its own inputs, locals and result; the manager's members are shared. *)

TheKeyFactory == "RsaSsaPkcs1PublicKeyFactory"

NoStatus == MkStatus("NONE", "NONE", "not set")

StatusResult(s) == [status |-> s, value |-> <<>>]

Constructed ==
  /\ key_type_ = kKeyType
  /\ key_factory_ = TheKeyFactory

NoCallYet ==
  /\ op = [t \in Threads |-> "none"]
  /\ pc = [t \in Threads |-> "idle"]
  /\ status = [t \in Threads |-> NoStatus]
  /\ status_or_n = [t \in Threads |-> StatusOrError(NoStatus)]
  /\ ret = [t \in Threads |-> NoResult]
  /\ evaluated = [t \in Threads |-> <<>>]

\* one caller (thread 1) holding an arbitrary key and key format
Init ==
  /\ Constructed
  /\ NoCallYet
  /\ \E k \in Keys, f \in KeyFormats, a \in BOOLEAN :
       /\ key = [t \in Threads |-> IF t = 1 THEN k ELSE NoKey]
       /\ key_format = [t \in Threads |-> IF t = 1 THEN f ELSE <<>>]
       /\ bn_alloc_ok = [t \in Threads |-> IF t = 1 THEN a ELSE TRUE]

----------------------------------------------------------------------------
(* A call made by the single caller, from entry to return *)

Returns(t, name, result, ev) ==
  /\ op' = [op EXCEPT ![t] = name]
  /\ ret' = [ret EXCEPT ![t] = result]
  /\ evaluated' = [evaluated EXCEPT ![t] = ev]
  /\ UNCHANGED <<key_type_, key_factory_, key, key_format, bn_alloc_ok,
                 pc, status, status_or_n>>

CallValidateParams ==
  /\ pc[1] = "idle"
  /\ Returns(1, "Validate_Params", StatusResult(Validate_Params(key[1].params)),
     <<"ValidateSignatureHash">>)

CallValidatePublicKey ==
  LET r == Validate_PublicKey(key[1], bn_alloc_ok[1]) IN
  /\ pc[1] = "idle"
  /\ Returns(1, "Validate_PublicKey", StatusResult(r.status), r.evaluated)

CallGetPrimitiveFromKey ==
  LET r == GetPrimitiveFromKey(key[1], bn_alloc_ok[1]) IN
  /\ pc[1] = "idle"
  /\ Returns(1, "GetPrimitiveFromKey", [status |-> r.status, value |-> r.value], r.evaluated)

CallNewKey ==
  /\ pc[1] = "idle"
  /\ Returns(1, "NewKey", NewKey(key_format[1]), <<>>)

CallNewKeySerialized ==
  /\ pc[1] = "idle"
  /\ Returns(1, "NewKeySerialized", NewKeySerialized(key_format[1]), <<>>)

CallNewKeyData ==
  /\ pc[1] = "idle"
  /\ Returns(1, "NewKeyData", NewKeyData(key_format[1]), <<>>)

\* get_key_type() (lines 89-91)
Call_get_key_type ==
  /\ pc[1] = "idle"
  /\ Returns(1, "get_key_type", StatusOrValue(key_type_), <<>>)

\* get_key_factory() (lines 93-95)
Call_get_key_factory ==
  /\ pc[1] = "idle"
  /\ Returns(1, "get_key_factory", StatusOrValue(key_factory_), <<>>)

\* get_version() (line 97)
Call_get_version ==
  /\ pc[1] = "idle"
  /\ Returns(1, "get_version", StatusOrValue(kVersion), <<>>)

Next ==
  \/ CallValidateParams
  \/ CallValidatePublicKey
  \/ CallGetPrimitiveFromKey
  \/ CallNewKey
  \/ CallNewKeySerialized
  \/ CallNewKeyData
  \/ Call_get_key_type
  \/ Call_get_key_factory
  \/ Call_get_version

Spec == Init /\ [][Next]_vars

----------------------------------------------------------------------------
(* Concurrent callers: every thread runs its call statement by statement,  *)
(* pc[t] being the source line it is about to execute.                      *)

GoodKey == [version |-> 0, n |-> Modulus2048, e |-> <<1, 0, 1>>, params |-> [hash_type |-> 3]]
Sha1Key == [GoodKey EXCEPT !.params.hash_type = 1]
SmallKey == [GoodKey EXCEPT !.n = Modulus1024]
Version1Key == [GoodKey EXCEPT !.version = 1]
DegenerateKey == [GoodKey EXCEPT !.e = <<1>>]

\* the calls on keys the concurrent callers make: the method, the key, and
\* the outcome of BN_bin2bn
KeyCall(name, k, a) == [name |-> name, key |-> k, alloc_ok |-> a]

ConcCalls ==
  { KeyCall("Validate_Params", k, TRUE) : k \in {GoodKey, Sha1Key} }
  \cup { KeyCall("Validate_PublicKey", k, TRUE) : k \in {GoodKey, SmallKey, Version1Key} }
  \cup { KeyCall("Validate_PublicKey", GoodKey, FALSE) }
  \cup { KeyCall("GetPrimitiveFromKey", k, TRUE) :
           k \in {GoodKey, Sha1Key, Version1Key, DegenerateKey} }

\* the key formats the concurrent callers hand to the factory
ConcKeyFormats == { ValidKeyFormat, <<255>> }

FactoryOps == {"NewKey", "NewKeySerialized", "NewKeyData"}

EntryLine(name) ==
  CASE name = "Validate_Params" -> "L122"
    [] name = "Validate_PublicKey" -> "L128"
    [] name = "GetPrimitiveFromKey" -> "L102"
    [] name = "NewKey" -> "L63"
    [] name = "NewKeySerialized" -> "L70"
    [] name = "NewKeyData" -> "L77"

ConcInit ==
  /\ Constructed
  /\ NoCallYet
  /\ key = [t \in Threads |-> NoKey]
  /\ key_format = [t \in Threads |-> <<>>]
  /\ bn_alloc_ok = [t \in Threads |-> TRUE]

\* the local `Status status' of a call is the calling thread's own
SharedStatus(t, s) == [u \in Threads |-> s]

SetStatus(t, s) == [status EXCEPT ![t] = s]

Manager == <<key_type_, key_factory_>>

\* a thread enters one of the manager's or the factory's methods
Invoke(t) ==
  /\ pc[t] = "idle"
  /\ \/ \E c \in ConcCalls :
          /\ op' = [op EXCEPT ![t] = c.name]
          /\ pc' = [pc EXCEPT ![t] = EntryLine(c.name)]
          /\ key' = [key EXCEPT ![t] = c.key]
          /\ bn_alloc_ok' = [bn_alloc_ok EXCEPT ![t] = c.alloc_ok]
          /\ UNCHANGED key_format
     \/ \E name \in FactoryOps, f \in ConcKeyFormats :
          /\ op' = [op EXCEPT ![t] = name]
          /\ pc' = [pc EXCEPT ![t] = EntryLine(name)]
          /\ key_format' = [key_format EXCEPT ![t] = f]
          /\ UNCHANGED <<key, bn_alloc_ok>>
  /\ UNCHANGED <<Manager, status, status_or_n, ret, evaluated>>

\* a method returns `result' to the caller of thread t
ReturnToCaller(t, result) ==
  /\ ret' = [ret EXCEPT ![t] = result]
  /\ pc' = [pc EXCEPT ![t] = "done"]

\* Validate(key) returns s: to the caller, or to line 102 of GetPrimitiveFromKey
ValidateReturns(t, s) ==
  IF op[t] = "GetPrimitiveFromKey"
    THEN /\ status' = SetStatus(t, s)
         /\ pc' = [pc EXCEPT ![t] = "L103"]
         /\ UNCHANGED ret
    ELSE /\ ReturnToCaller(t, StatusResult(s))
         /\ UNCHANGED status

Evaluates(t, name) == evaluated' = [evaluated EXCEPT ![t] = Append(@, name)]

\* line 102: Status status = Validate(rsa_ssa_pkcs1_public_key);
Line102(t) ==
  /\ pc[t] = "L102"
  /\ pc' = [pc EXCEPT ![t] = "L128"]
  /\ UNCHANGED <<Manager, key, key_format, bn_alloc_ok, op, status, status_or_n,
                 ret, evaluated>>

\* lines 128-129
Line128(t) ==
  /\ pc[t] = "L128"
  /\ Evaluates(t, "ValidateVersion")
  /\ LET s == ValidateVersion(key[t].version, kVersion) IN
       IF ~IsOk(s) THEN ValidateReturns(t, s)
       ELSE /\ status' = SetStatus(t, s)
            /\ pc' = [pc EXCEPT ![t] = "L130"]
            /\ UNCHANGED ret
  /\ UNCHANGED <<Manager, key, key_format, bn_alloc_ok, op, status_or_n>>

\* lines 130-131
Line130(t) ==
  /\ pc[t] = "L130"
  /\ Evaluates(t, "str2bn")
  /\ LET son == str2bn(key[t].n, bn_alloc_ok[t]) IN
       /\ status_or_n' = [status_or_n EXCEPT ![t] = son]
       /\ IF ~IsOk(son.status) THEN ValidateReturns(t, son.status)
          ELSE /\ pc' = [pc EXCEPT ![t] = "L132"]
               /\ UNCHANGED <<status, ret>>
  /\ UNCHANGED <<Manager, key, key_format, bn_alloc_ok, op>>

\* lines 132-134
Line132(t) ==
  /\ pc[t] = "L132"
  /\ Evaluates(t, "ValidateRsaModulusSize")
  /\ LET modulus_status ==
           ValidateRsaModulusSize(BN_num_bits(status_or_n[t].value[1])) IN
       IF ~IsOk(modulus_status) THEN ValidateReturns(t, modulus_status)
       ELSE /\ pc' = [pc EXCEPT ![t] = "L135"]
            /\ UNCHANGED <<status, ret>>
  /\ UNCHANGED <<Manager, key, key_format, bn_alloc_ok, op, status_or_n>>

\* line 135
Line135(t) ==
  /\ pc[t] = "L135"
  /\ Evaluates(t, "ValidateSignatureHash")
  /\ ValidateReturns(t, Validate_Params(key[t].params))
  /\ UNCHANGED <<Manager, key, key_format, bn_alloc_ok, op, status_or_n>>

\* line 103: if (!status.ok()) return status;
Line103(t) ==
  /\ pc[t] = "L103"
  /\ IF ~IsOk(status[t]) THEN ReturnToCaller(t, StatusResult(status[t]))
     ELSE /\ pc' = [pc EXCEPT ![t] = "L104"]
          /\ UNCHANGED ret
  /\ UNCHANGED <<Manager, key, key_format, bn_alloc_ok, op, status, status_or_n,
                 evaluated>>

\* lines 104-117
Line104(t) ==
  /\ pc[t] = "L104"
  /\ Evaluates(t, "RsaSsaPkcs1VerifyBoringSsl::New")
  /\ LET rsa_pub_key == [n |-> key[t].n, e |-> key[t].e]
         params == [hash_type |-> ProtoToSubtle(key[t].params.hash_type)]
         rsa_ssa_pkcs1_result == RsaSsaPkcs1VerifyBoringSsl_New(rsa_pub_key, params)
     IN
       IF ~IsOk(rsa_ssa_pkcs1_result.status)
         THEN ReturnToCaller(t, StatusResult(rsa_ssa_pkcs1_result.status))
         ELSE ReturnToCaller(t, StatusOrValue(rsa_ssa_pkcs1_result.value[1]))
  /\ UNCHANGED <<Manager, key, key_format, bn_alloc_ok, op, status, status_or_n>>

\* lines 121-124
Line122(t) ==
  /\ pc[t] = "L122"
  /\ Evaluates(t, "ValidateSignatureHash")
  /\ ReturnToCaller(t, StatusResult(Validate_Params(key[t].params)))
  /\ UNCHANGED <<Manager, key, key_format, bn_alloc_ok, op, status, status_or_n>>

\* lines 61-66
Line63(t) ==
  /\ pc[t] = "L63"
  /\ ReturnToCaller(t, NewKey(key_format[t]))
  /\ UNCHANGED <<Manager, key, key_format, bn_alloc_ok, op, status, status_or_n,
                 evaluated>>

\* lines 68-73
Line70(t) ==
  /\ pc[t] = "L70"
  /\ ReturnToCaller(t, NewKeySerialized(key_format[t]))
  /\ UNCHANGED <<Manager, key, key_format, bn_alloc_ok, op, status, status_or_n,
                 evaluated>>

\* lines 75-80
Line77(t) ==
  /\ pc[t] = "L77"
  /\ ReturnToCaller(t, NewKeyData(key_format[t]))
  /\ UNCHANGED <<Manager, key, key_format, bn_alloc_ok, op, status, status_or_n,
                 evaluated>>

\* the caller takes the result; the call's locals are gone
Finish(t) ==
  /\ pc[t] = "done"
  /\ pc' = [pc EXCEPT ![t] = "idle"]
  /\ op' = [op EXCEPT ![t] = "none"]
  /\ key' = [key EXCEPT ![t] = NoKey]
  /\ key_format' = [key_format EXCEPT ![t] = <<>>]
  /\ bn_alloc_ok' = [bn_alloc_ok EXCEPT ![t] = TRUE]
  /\ status' = [status EXCEPT ![t] = NoStatus]
  /\ status_or_n' = [status_or_n EXCEPT ![t] = StatusOrError(NoStatus)]
  /\ ret' = [ret EXCEPT ![t] = NoResult]
  /\ evaluated' = [evaluated EXCEPT ![t] = <<>>]
  /\ UNCHANGED Manager

ConcNext ==
  \E t \in Threads :
    \/ Invoke(t)
    \/ Line102(t)
    \/ Line128(t)
    \/ Line130(t)
    \/ Line132(t)
    \/ Line135(t)
    \/ Line103(t)
    \/ Line104(t)
    \/ Line122(t)
    \/ Line63(t)
    \/ Line70(t)
    \/ Line77(t)
    \/ Finish(t)

SpecConc == ConcInit /\ [][ConcNext]_vars

----------------------------------------------------------------------------
(* What the properties are stated with: the key's own facts, computed      *)
(* without the manager's code.                                             *)

\* zero bits in front of the highest set bit of a big-endian byte string
RECURSIVE LeadingZeroBits(_)
LeadingZeroBits(s) ==
  IF Len(s) = 0 THEN 0
  ELSE IF s[1] = 0 THEN 8 + LeadingZeroBits(Tail(s))
  ELSE 8 - (CHOOSE b \in 1..8 : 2^(b-1) <= s[1] /\ s[1] < 2^b)

\* bit-length of the integer a big-endian byte string encodes
BitLength(s) == Len(s) * 8 - LeadingZeroBits(s)

ApprovedProtoHashes == {2, 3, 4}

KeyIsValid(k, alloc_ok) ==
  /\ k.version = kVersion
  /\ alloc_ok
  /\ BitLength(k.n) >= kMinRsaModulusSizeInBits
  /\ k.params.hash_type \in ApprovedProtoHashes

NewCalled(ev) == \E i \in 1..Len(ev) : ev[i] = "RsaSsaPkcs1VerifyBoringSsl::New"

ValidateChecks ==
  <<"ValidateVersion", "str2bn", "ValidateRsaModulusSize", "ValidateSignatureHash">>

ErrorKinds ==
  <<"UnsupportedVersion", "MalformedModulus", "InsecureModulusSize", "UnsupportedHash">>

\* which of the four checks of Validate(key) the key fails, in the order of the checks
FailsCheck(k, alloc_ok) ==
  << k.version # kVersion,
     ~alloc_ok,
     BitLength(k.n) < kMinRsaModulusSizeInBits,
     k.params.hash_type \notin ApprovedProtoHashes >>

\* the first check the key fails, 0 when it passes all four
FirstFailing(k, alloc_ok) ==
  LET f == FailsCheck(k, alloc_ok) IN
  IF \E i \in 1..4 : f[i] THEN CHOOSE i \in 1..4 : f[i] /\ \A j \in 1..(i-1) : ~f[j]
  ELSE 0

----------------------------------------------------------------------------
(* Properties.  Under Spec the caller is thread 1.                         *)

\* C1: GetPrimitiveFromKey runs Validate(key) first; when Validate fails it
\* returns exactly that status, never calls RsaSsaPkcs1VerifyBoringSsl::New and
\* returns no primitive.  A primitive is returned exactly when the status is OK,
\* and only for a key that passes every check of Validate.
C1_ValidateThenConstruct ==
  op[1] = "GetPrimitiveFromKey" =>
    LET v == Validate_PublicKey(key[1], bn_alloc_ok[1]) IN
      /\ Len(evaluated[1]) >= 1 /\ evaluated[1][1] = "ValidateVersion"
      /\ ~IsOk(v.status) =>
           /\ ret[1].status = v.status
           /\ ret[1].value = <<>>
           /\ ~NewCalled(evaluated[1])
      /\ (IsOk(ret[1].status) <=> ret[1].value # <<>>)
      /\ (ret[1].value # <<>> => KeyIsValid(key[1], bn_alloc_ok[1]))
      /\ (~KeyIsValid(key[1], bn_alloc_ok[1]) => ~NewCalled(evaluated[1]))

\* an invalid key whose exponent the provider would have accepted: no primitive
C1_Witness ==
  /\ op[1] = "GetPrimitiveFromKey"
  /\ ~KeyIsValid(key[1], bn_alloc_ok[1])
  /\ ~DegenerateExponent(key[1].e)
  /\ ~IsOk(ret[1].status)
  /\ ret[1].value = <<>>

\* C2: for every key with version # kVersion, Validate(key) returns
\* UnsupportedVersion, whatever the modulus, exponent and hash are.
C2_VersionGate ==
  (op[1] = "Validate_PublicKey" /\ key[1].version # kVersion) =>
    /\ ret[1].status.kind = "UnsupportedVersion"
    /\ ~IsOk(ret[1].status)

\* a wrong version together with a failing parse, a short modulus and a bad hash
C2_Witness ==
  /\ op[1] = "Validate_PublicKey"
  /\ key[1].version # kVersion
  /\ ~bn_alloc_ok[1]
  /\ BitLength(key[1].n) < kMinRsaModulusSizeInBits
  /\ key[1].params.hash_type \notin ApprovedProtoHashes
  /\ ret[1].status.kind = "UnsupportedVersion"

\* C3: with the supported version and a modulus that parses, the size check of
\* Validate(key) is decided by the bit-length of the decoded integer: it fails
\* with InsecureModulusSize exactly when that bit-length is below the minimum
\* (so exactly the minimum passes and one bit less fails), and prepending zero
\* bytes to the modulus does not change the result.
C3_SizeByBitLength ==
  (op[1] = "Validate_PublicKey" /\ key[1].version = kVersion /\ bn_alloc_ok[1]) =>
    /\ (ret[1].status.kind = "InsecureModulusSize"
          <=> BitLength(key[1].n) < kMinRsaModulusSizeInBits)
    /\ (BitLength(key[1].n) = kMinRsaModulusSizeInBits
          => ret[1].status.kind # "InsecureModulusSize")
    /\ (BitLength(key[1].n) = kMinRsaModulusSizeInBits - 1
          => ret[1].status.kind = "InsecureModulusSize")
    /\ \A z \in 1..(MaxLeadZeros + 1) :
         Validate_PublicKey([key[1] EXCEPT !.n = Rep(0, z) \o @], TRUE).status
           = ret[1].status

\* one bit below the minimum, in a string of at least the minimum's length
C3_Witness ==
  /\ op[1] = "Validate_PublicKey"
  /\ key[1].version = kVersion
  /\ bn_alloc_ok[1]
  /\ BitLength(key[1].n) = kMinRsaModulusSizeInBits - 1
  /\ Len(key[1].n) * 8 > kMinRsaModulusSizeInBits
  /\ ret[1].status.kind = "InsecureModulusSize"

\* C4: Validate(params) succeeds exactly for the approved hashes; for every
\* other value, the unknown sentinel included, it fails with UnsupportedHash;
\* it returns nothing else and leaves the manager as constructed.
C4_HashAllowList ==
  op[1] = "Validate_Params" =>
    /\ (IsOk(ret[1].status) <=> key[1].params.hash_type \in ApprovedProtoHashes)
    /\ (~IsOk(ret[1].status) => ret[1].status.kind = "UnsupportedHash")
    /\ ret[1].value = <<>>
    /\ Constructed

\* a hash number that no enum value has is refused
C4_Witness ==
  /\ op[1] = "Validate_Params"
  /\ key[1].params.hash_type \notin {1} \cup ApprovedProtoHashes
  /\ ret[1].status.kind = "UnsupportedHash"

\* C5: NewKey (message), NewKey (serialized) and NewKeyData return the
\* UNIMPLEMENTED status and no object for every key format, a valid one too,
\* whatever was called before; the three agree on every format.
C5_CreationRefused ==
  /\ op[1] \in FactoryOps =>
       /\ ret[1].status.code = "UNIMPLEMENTED"
       /\ ret[1].status.kind = "UnsupportedOperation"
       /\ ret[1].value = <<>>
  /\ \A f \in KeyFormats :
       /\ NewKey(f) = NewKeySerialized(f)
       /\ NewKeySerialized(f) = NewKeyData(f)
  /\ key_factory_ = TheKeyFactory

\* NewKeyData refuses a key format that parses
C5_Witness ==
  /\ op[1] = "NewKeyData"
  /\ key_format[1] = ValidKeyFormat
  /\ ret[1].status.code = "UNIMPLEMENTED"
  /\ ret[1].value = <<>>

\* C6: with the modulus parsed, GetPrimitiveFromKey gives a primitive for the
\* key (version 0, 2048-bit modulus, exponent 65537, SHA256); UnsupportedHash
\* for the same key with SHA1; InsecureModulusSize for the same key with a
\* 1024-bit modulus; UnsupportedVersion for the same key with version 1, with
\* nothing but the version check evaluated.
C6_Scenario ==
  (op[1] = "GetPrimitiveFromKey" /\ bn_alloc_ok[1]) =>
    /\ key[1] = GoodKey =>
         /\ IsOk(ret[1].status)
         /\ ret[1].value = << [n |-> Modulus2048, e |-> <<1, 0, 1>>, hash_type |-> "SHA256"] >>
    /\ key[1] = Sha1Key =>
         /\ ret[1].status.kind = "UnsupportedHash"
         /\ ret[1].value = <<>>
    /\ key[1] = SmallKey =>
         /\ ret[1].status.kind = "InsecureModulusSize"
         /\ ret[1].value = <<>>
    /\ key[1] = Version1Key =>
         /\ ret[1].status.kind = "UnsupportedVersion"
         /\ ret[1].value = <<>>
         /\ evaluated[1] = <<"ValidateVersion">>

\* the same key with the 1024-bit modulus has been refused
C6_Witness ==
  /\ op[1] = "GetPrimitiveFromKey"
  /\ bn_alloc_ok[1]
  /\ key[1] = SmallKey
  /\ BitLength(key[1].n) = 1024
  /\ ret[1].status.kind = "InsecureModulusSize"

\* C7: when Validate(key) succeeds and RsaSsaPkcs1VerifyBoringSsl::New fails,
\* GetPrimitiveFromKey returns the status of New unchanged (its
\* PrimitiveConstructionFailed diagnostic) and no primitive.
C7_ConstructionFailure ==
  LET r == RsaSsaPkcs1VerifyBoringSsl_New([n |-> key[1].n, e |-> key[1].e],
             [hash_type |-> ProtoToSubtle(key[1].params.hash_type)])
  IN
  (/\ op[1] = "GetPrimitiveFromKey"
   /\ KeyIsValid(key[1], bn_alloc_ok[1])
   /\ ~IsOk(r.status)) =>
    /\ ret[1].status = r.status
    /\ ret[1].status.kind = "PrimitiveConstructionFailed"
    /\ ret[1].value = <<>>
    /\ NewCalled(evaluated[1])

\* a valid key with exponent 1: New was called and refused it
C7_Witness ==
  /\ op[1] = "GetPrimitiveFromKey"
  /\ KeyIsValid(key[1], bn_alloc_ok[1])
  /\ key[1].e = <<1>>
  /\ NewCalled(evaluated[1])
  /\ ret[1].status.kind = "PrimitiveConstructionFailed"


\* what a call returns, and which collaborators it evaluates, when it runs alone
RunAlone(name, k, f, alloc_ok) ==
  CASE name = "Validate_Params" ->
         [ret |-> StatusResult(Validate_Params(k.params)),
          evaluated |-> <<"ValidateSignatureHash">>]
    [] name = "Validate_PublicKey" ->
         [ret |-> StatusResult(Validate_PublicKey(k, alloc_ok).status),
          evaluated |-> Validate_PublicKey(k, alloc_ok).evaluated]
    [] name = "GetPrimitiveFromKey" ->
         [ret |-> [status |-> GetPrimitiveFromKey(k, alloc_ok).status,
                   value |-> GetPrimitiveFromKey(k, alloc_ok).value],
          evaluated |-> GetPrimitiveFromKey(k, alloc_ok).evaluated]
    [] name = "NewKey" -> [ret |-> NewKey(f), evaluated |-> <<>>]
    [] name = "NewKeySerialized" -> [ret |-> NewKeySerialized(f), evaluated |-> <<>>]
    [] name = "NewKeyData" -> [ret |-> NewKeyData(f), evaluated |-> <<>>]

\* C8: under every interleaving of the threads' calls, a call that has
\* returned has returned what it returns when run alone on its input, having
\* evaluated the same collaborators; a call in progress has evaluated a prefix
\* of them; and the manager's members are as constructed.
C8_Stateless ==
  /\ Constructed
  /\ \A t \in Threads :
       /\ pc[t] = "done" =>
            /\ ret[t] = RunAlone(op[t], key[t], key_format[t], bn_alloc_ok[t]).ret
            /\ evaluated[t] = RunAlone(op[t], key[t], key_format[t], bn_alloc_ok[t]).evaluated
       /\ pc[t] \notin {"done", "idle"} =>
            LET ev == RunAlone(op[t], key[t], key_format[t], bn_alloc_ok[t]).evaluated IN
              /\ Len(evaluated[t]) <= Len(ev)
              /\ evaluated[t] = SubSeq(ev, 1, Len(evaluated[t]))
              /\ ret[t] = NoResult

\* thread 1 has its primitive while thread 2's call on a refused key, begun
\* before thread 1 returned, has returned too
C8_Witness ==
  /\ NumThreads >= 2
  /\ pc[1] = "done" /\ op[1] = "GetPrimitiveFromKey" /\ key[1] = GoodKey
  /\ IsOk(ret[1].status) /\ ret[1].value # <<>>
  /\ pc[2] = "done" /\ op[2] = "Validate_PublicKey" /\ key[2] = Version1Key
  /\ ret[2].status.kind = "UnsupportedVersion"

\* C9: Validate(key) runs the version check, the modulus parse, the size check
\* and the parameter validation in this order and stops at the first that
\* fails: it returns that check's error, has evaluated the checks up to it and
\* none after it, returns the status of Validate(params) unchanged when that is
\* the failing check, and returns OK only when all four pass.
C9_CheckOrder ==
  op[1] = "Validate_PublicKey" =>
    LET i == FirstFailing(key[1], bn_alloc_ok[1]) IN
      /\ i = 0 => /\ IsOk(ret[1].status)
                  /\ evaluated[1] = ValidateChecks
      /\ i # 0 => /\ ret[1].status.kind = ErrorKinds[i]
                  /\ evaluated[1] = SubSeq(ValidateChecks, 1, i)
      /\ i = 4 => ret[1].status = Validate_Params(key[1].params)
      /\ (IsOk(ret[1].status) <=> KeyIsValid(key[1], bn_alloc_ok[1]))

\* a key that fails both the size check and the hash check: the size error
\* is returned and the hash is never looked at
C9_Witness ==
  /\ op[1] = "Validate_PublicKey"
  /\ FailsCheck(key[1], bn_alloc_ok[1]) = <<FALSE, FALSE, TRUE, TRUE>>
  /\ ret[1].status.kind = "InsecureModulusSize"
  /\ Len(evaluated[1]) = 3

\* C10: Validate(key) returns the same status for keys that differ only in
\* the public exponent; GetPrimitiveFromKey gives different results for two
\* such keys only when RsaSsaPkcs1VerifyBoringSsl::New was called.
C10_ExponentNotValidated ==
  /\ op[1] = "Validate_PublicKey" =>
       \A e2 \in Exponents :
         /\ Validate_PublicKey([key[1] EXCEPT !.e = e2], bn_alloc_ok[1]).status
              = ret[1].status
         /\ Validate_PublicKey([key[1] EXCEPT !.e = e2], bn_alloc_ok[1]).evaluated
              = evaluated[1]
  /\ op[1] = "GetPrimitiveFromKey" =>
       \A e2 \in Exponents :
         LET r2 == GetPrimitiveFromKey([key[1] EXCEPT !.e = e2], bn_alloc_ok[1]) IN
           r2.status # ret[1].status =>
             /\ NewCalled(evaluated[1])
             /\ NewCalled(r2.evaluated)

\* Validate(key) has accepted a key whose exponent is the degenerate 2
C10_Witness ==
  /\ op[1] = "Validate_PublicKey"
  /\ key[1].e = <<2>>
  /\ DegenerateExponent(key[1].e)
  /\ IsOk(ret[1].status)

====
